---- MODULE Spec2Model ----
(***************************************************************************)
(* Model of the convox agent's container monitor (containers.go and the    *)
(* Monitor type): the per-stream line buffer guarded by the monitor lock,  *)
(* the batched Kinesis forwarder, the inventory pass, the event dispatch   *)
(* loop with its handlers, and the log-subscription retry loop.            *)
(*                                                                         *)
(* Three families of specifications share the variables:                   *)
(*   SpecBuf / SpecBufLive  addLine and getLines under the monitor lock    *)
(*   SpecFwd                streamLogs draining the buffer into batches    *)
(*   Spec                   Containers(): inventory, dispatch, handlers    *)
(***************************************************************************)
EXTENDS Integers, Sequences, FiniteSets, TLC

VARIABLES
    lines,      \* m.lines: stream name -> pending lines (a map: keys appear on first addLine)
    lock,       \* m.lock: "free" or the goroutine holding it
    bproc,      \* per goroutine of the buffer specifications: position and locals inside addLine/getLines
    appended,   \* history: per stream, the lines in the order their appends took effect
    drained,    \* history: per stream, the concatenation of the getLines results so far
    nextLine,   \* next fresh line value handed to a producer
    addsLeft,   \* addLine calls the producers may still start
    lastCall,   \* history: the last completed getLines call (stream, buffer before, result, buffer after)
    fwd,        \* streamLogs: position in the tick loop and its locals
    submitted,  \* history: the batches given to Kinesis.PutRecords, with the result and what was logged
    ticks,      \* ticks of the forwarder's timer so far
    mt,         \* the goroutine running Containers() and then handleEvents: position and locals
    agent,      \* m.agentId, m.agentImage, m.agentVersion
    envs,       \* m.envs: container id -> captured env (a map)
    loggers,    \* m.loggers: container id -> sink handle (a map)
    handles,    \* the awslogs loggers created so far: open or closed, Close calls, writes
    tasks,      \* the goroutines started with "go": handler, position, locals and history
    nEvents,    \* events received from the feed so far
    cgroups,    \* the containers whose cgroup memory limits updateCgroups has written
    excluded,   \* history: the ids handleRunning skipped as the agent's own
    nEnds,      \* log streams that have ended so far
    nForward,   \* lines handed to parseAndForwardLine so far
    created,    \* history: container id -> env stored by handleCreate for a create event of the feed
    host,       \* the host's containers as Docker knows them: the running ones and the exited ones
    handled,    \* history: the ids the inventory pass ran handleCreate / handleDie for, and failed inspects
    pfl,        \* parseAndForwardLine: the last call with its locals and what it wrote
    cyc,        \* one connect cycle of subscribeLogs: the pipe, followDockerLogs, readLines, the join
    acc         \* per goroutine, the access to m.envs / m.loggers / m.lines it is inside of

bufVars == <<lines, lock, bproc, appended, drained, nextLine, addsLeft, lastCall>>
fwdVars == <<fwd, submitted, ticks>>
mainVars == <<mt, agent, envs, loggers, handles, tasks, nEvents, cgroups, excluded, nEnds, nForward, created,
             host, handled>>
startVars == <<host, handled>>
auxVars == <<pfl, cyc, acc>>
vars == <<lines, lock, bproc, appended, drained, nextLine, addsLeft, lastCall, fwd, submitted, ticks,
          mt, agent, envs, loggers, handles, tasks, nEvents, cgroups, excluded, nEnds, nForward, created,
          host, handled, pfl, cyc, acc>>

(***************************************************************************)
(* Bounds of the model.                                                    *)
(***************************************************************************)
MaxAdd == 2             \* addLine calls started after the initial state
MaxFwdLines == 4        \* lines the producers append while the forwarder runs
MaxTicks == 2           \* ticks of the forwarder's timer
MaxEvents == 2          \* events the feed delivers
MaxEnds == 2            \* log streams (connect cycles) that come to an end
MaxForward == 1         \* lines the readers hand to parseAndForwardLine
MaxLate == 1            \* containers that start or exit while the inventory pass runs
MaxTokens == 3          \* length, in tokens, of the identifiers given to parseAndForwardLine
MaxCalls == 1           \* parseAndForwardLine calls

\* getLines returns at most this many lines per call (containers.go:583)
DrainLimit == 500

Streams == {"k1", "k2"}
Producers == {"p1", "p2"}
Forwarder == "fwd"
BufProcs == Producers \cup {Forwarder}

\* buffer lengths the buffer specifications start from: around 0 and around the drain limit
InitLens == {0, 1, DrainLimit - 1, DrainLimit, DrainLimit + 1}

Range(s) == {s[i] : i \in DOMAIN s}
Min(a, b) == IF a < b THEN a ELSE b

\* the lines numbered from..from+n-1, in order
Numbered(from, n) == [i \in 1..n |-> from + i - 1]

(***************************************************************************)
(* The stream buffer: m.lines and the operations on it.                    *)
(***************************************************************************)

\* m.lines[stream]: the nil slice for a stream that has no key yet
Buf(ls, stream) == IF stream \in DOMAIN ls THEN ls[stream] ELSE <<>>

\* m.lines[stream] = v
PutBuf(ls, stream, v) == [s \in (DOMAIN ls) \cup {stream} |-> IF s = stream THEN v ELSE ls[s]]

\* addLine's body once the lock is held: m.lines[stream] = append(m.lines[stream], data)
addLine(ls, stream, data) == PutBuf(ls, stream, Append(Buf(ls, stream), data))

\* getLines without the cap on nl
getLinesCountUncapped(n) == n

\* getLines that takes nothing from a buffer of more than 500 lines
getLinesCountStalls(n) == IF n > DrainLimit THEN 0 ELSE n

\* getLines: the number of lines one call takes, nl capped at 500
getLinesCount(n) == IF n > DrainLimit THEN DrainLimit ELSE n

\* getLines: the returned copy (nil, written <<>>, when the buffer is empty)
getLinesRet(ls, stream) == SubSeq(Buf(ls, stream), 1, getLinesCount(Len(Buf(ls, stream))))

\* getLines: the buffer afterwards, m.lines[stream][nl:]; an empty buffer returns before any write
getLinesRest(ls, stream) ==
    LET b == Buf(ls, stream)
    IN  IF Len(b) = 0 THEN ls
        ELSE PutBuf(ls, stream, SubSeq(b, getLinesCount(Len(b)) + 1, Len(b)))

\* streams(): the keys of m.lines
streams(ls) == DOMAIN ls

\* a Lock that returns although another goroutine holds the lock
CanLockUnguarded(l) == TRUE

\* m.lock.Lock() returns only when no goroutine holds the lock
CanLock(l) == l = "free"

(***************************************************************************)
(* The monitor's state: the containers of the host as Docker reports them, *)
(* the registry (m.envs), the sink handles (m.loggers) and the agent's     *)
(* identity.                                                               *)
(***************************************************************************)

\* the containers of the host
Containers == {"a1", "a2", "c1"}

\* container.Image as ListContainers reports it, split at the ":" before the tag
Image(c) ==
    CASE c = "a1" -> <<"goodeggs/convox-agent", "0.73">>
      [] c = "a2" -> <<"agent/agent">>
      [] OTHER    -> <<"httpd", "2.4">>

\* container.Config.Env as InspectContainer reports it: one entry per variable,
\* split at its first "=" (an entry without "=" is one part)
ConfigEnv(c) ==
    CASE c = "a1" -> << <<"LOG_GROUP", "lg-a1">>, <<"SWAP", "1">> >>
      [] c = "a2" -> << <<"KINESIS", "k2">>, <<"TERM">> >>
      [] OTHER    -> << <<"LOG_GROUP", "lg-c1">>, <<"KINESIS", "k1">>, <<"PROCESS", "web">> >>

\* the kinds of event the feed delivers; "destroy" stands for the kinds the switch ignores
EventKinds == {"create", "start", "die", "kill", "oom", "stop", "destroy"}

\* what ListContainers can answer at the start of the inventory pass
RunningLists == { <<>>, <<"c1">>, <<"c1", "a1">>, <<"a1", "a2">> }

\* what ListContainers with the status=exited filter can answer
ExitedLists == { <<>>, <<"c1">> }

\* the outcomes of InspectContainer in the subscription loop
InspectResults == {"running", "stopped", "notfound", "other"}

\* strings.HasPrefix(img, "goodeggs/convox-agent") || strings.HasPrefix(img, "agent/agent")
IsAgentImage(img) == img[1] \in {"goodeggs/convox-agent", "agent/agent"}

\* env[key] of a Go map: the empty string for a missing key
EnvGet(env, key) == IF key \in DOMAIN env THEN env[key] ELSE ""

\* handleCreate's loop over container.Config.Env: env[parts[0]] = parts[1] for
\* every entry with two parts, a later entry overriding an earlier one
RECURSIVE ParseEnv(_)
ParseEnv(entries) ==
    IF entries = <<>> THEN << >>
    ELSE LET n == Len(entries)
             e == entries[n]
             rest == ParseEnv(SubSeq(entries, 1, n - 1))
         IN  IF Len(e) = 2
             THEN [k \in (DOMAIN rest) \cup {e[1]} |-> IF k = e[1] THEN e[2] ELSE rest[k]]
             ELSE rest

\* a setEnv that stores nothing
setEnvDropped(es, id, env) == es

\* setEnv: m.envs[id] = env
setEnv(es, id, env) == [c \in (DOMAIN es) \cup {id} |-> IF c = id THEN env ELSE es[c]]

NoEnv == [ok |-> FALSE, env |-> << >>]

\* getEnv: env, ok := m.envs[id]
getEnv(es, id) == IF id \in DOMAIN es THEN [ok |-> TRUE, env |-> es[id]] ELSE NoEnv

\* setLogger: m.loggers[id] = l
setLogger(lg, id, h) == [c \in (DOMAIN lg) \cup {id} |-> IF c = id THEN h ELSE lg[c]]

\* getLogger: l, ok := m.loggers[id] (0 stands for the missing entry)
getLogger(lg, id) == IF id \in DOMAIN lg THEN lg[id] ELSE 0

\* awslogs.New: a new open handle for the container
NewHandle(id) == [id |-> id, open |-> TRUE, closes |-> 0, wrote |-> FALSE, late |-> FALSE]

\* awslogger.Log on handle h: a write, late when the handle was closed before
LogTo(hs, h) ==
    IF h = 0 THEN hs
    ELSE [hs EXCEPT ![h] = IF @.open THEN [@ EXCEPT !.wrote = TRUE]
                                     ELSE [@ EXCEPT !.late = TRUE]]

\* a Close that leaves the handle open
CloseHandleSkipped(hs, h) == hs

\* awslogger.Close on handle h
CloseHandle(hs, h) == [hs EXCEPT ![h] = [@ EXCEPT !.open = FALSE, !.closes = @ + 1]]

\* logSystemf: the line goes to stdout and to the logger registered for m.agentId, if any
logSystemf(hs, lg, ag) == LogTo(hs, getLogger(lg, ag.id))

\* logAppEvent: the write to the container's logger, if one is registered
logAppEventLog(hs, lg, id) == LogTo(hs, getLogger(lg, id))

\* logAppEvent: the line added to the container's KINESIS stream, if its env has the key
logAppEventLine(ls, es, id) ==
    IF id \in DOMAIN es /\ "KINESIS" \in DOMAIN es[id]
    THEN addLine(ls, es[id]["KINESIS"], <<id, "event">>)
    ELSE ls

\* nothing is known of the host before the first ListContainers
NoHost == [running |-> {}, exited |-> {}, changes |-> 0]

NoneHandled == [created |-> {}, died |-> {}, failed |-> {}]

\* no parseAndForwardLine call yet
NoLine == [calls |-> 0]

\* no connect cycle started
NoCycle == [spc |-> "none"]

\* the goroutines that use the maps: the one running the inventory pass and the
\* dispatch loop, two handlers started with "go", and streamLogs
Goroutines == {"loop", "task1", "task2", "fwd"}

\* The places where the code touches m.envs, m.loggers or m.lines: the function,
\* the map, whether the map is written, and whether the function takes m.lock
\* around the access.  logAppEvent reads m.loggers[id] and m.envs[id] and
\* logSystemf reads m.loggers[m.agentId] with no Lock call.
MapOps ==
    [getEnv            |-> [map |-> "envs",    write |-> FALSE, locks |-> TRUE],
     setEnv            |-> [map |-> "envs",    write |-> TRUE,  locks |-> TRUE],
     getLogger         |-> [map |-> "loggers", write |-> FALSE, locks |-> TRUE],
     setLogger         |-> [map |-> "loggers", write |-> TRUE,  locks |-> TRUE],
     addLine           |-> [map |-> "lines",   write |-> TRUE,  locks |-> TRUE],
     getLines          |-> [map |-> "lines",   write |-> TRUE,  locks |-> TRUE],
     streams           |-> [map |-> "lines",   write |-> FALSE, locks |-> TRUE],
     logAppEventLogger |-> [map |-> "loggers", write |-> FALSE, locks |-> FALSE],
     logAppEventEnv    |-> [map |-> "envs",    write |-> FALSE, locks |-> FALSE],
     logSystemfLogger  |-> [map |-> "loggers", write |-> FALSE, locks |-> FALSE]]

\* what each goroutine calls: the loop runs handleCreate (setEnv, setLogger,
\* logAppEvent) and the getEnv of its metric line; a handler runs getEnv,
\* logAppEvent, and in a subscription getLogger and addLine; streamLogs runs
\* streams and getLines; all of them log with logSystemf
Calls(g) ==
    CASE g = "loop" -> {"setEnv", "setLogger", "getEnv", "addLine",
                        "logAppEventLogger", "logAppEventEnv", "logSystemfLogger"}
      [] g = "fwd"  -> {"streams", "getLines", "logSystemfLogger"}
      [] OTHER      -> {"getEnv", "getLogger", "addLine",
                        "logAppEventLogger", "logAppEventEnv", "logSystemfLogger"}

\* no goroutine is inside a map access
NoAccess == [g \in Goroutines |-> "idle"]

\* NewMonitor: the maps are empty and the agent's identity holds its defaults
InitMonitor ==
    /\ mt = [pc |-> "start", list |-> <<>>, i |-> 0, id |-> "", ret |-> "", wait |-> "",
             err |-> FALSE]
    /\ agent = [id |-> "unknown", image |-> <<"convox/agent", "dev">>, version |-> "dev"]
    /\ envs = << >>
    /\ loggers = << >>
    /\ handles = <<>>
    /\ tasks = <<>>
    /\ nEvents = 0
    /\ cgroups = {}
    /\ excluded = {}
    /\ nEnds = 0
    /\ nForward = 0
    /\ created = << >>
    /\ host = NoHost
    /\ handled = NoneHandled
    /\ pfl = NoLine
    /\ cyc = NoCycle
    /\ acc = NoAccess

(***************************************************************************)
(* SpecBuf: goroutines calling addLine (the readers and handlers that      *)
(* produce lines) and getLines (the forwarder), each call split at the     *)
(* lock: Lock and the read of m.lines[stream], then the store and the      *)
(* deferred Unlock.                                                        *)
(***************************************************************************)
IdleProc == [pc |-> "idle", stream |-> "", data |-> 0, old |-> <<>>]

NoCall == [made |-> FALSE, stream |-> "", before |-> <<>>, ret |-> <<>>, after |-> <<>>]

IdleFwd == [pc |-> "wait", todo |-> {}, stream |-> "", batch |-> <<>>]

\* the buffer holding n1 lines for k1 and n2 lines for k2 (no key for a stream never written)
InitialLines(n1, n2) ==
    [s \in {x \in Streams : (x = "k1" /\ n1 > 0) \/ (x = "k2" /\ n2 > 0)} |->
        IF s = "k1" THEN Numbered(1, n1) ELSE Numbered(n1 + 1, n2)]

InitBuf ==
    /\ \E n1 \in InitLens, n2 \in InitLens :
          /\ lines = InitialLines(n1, n2)
          /\ appended = [s \in Streams |-> Buf(InitialLines(n1, n2), s)]
          /\ nextLine = n1 + n2 + 1
    /\ lock = "free"
    /\ bproc = [p \in BufProcs |-> IdleProc]
    /\ drained = [s \in Streams |-> <<>>]
    /\ addsLeft = MaxAdd
    /\ lastCall = NoCall
    /\ fwd = IdleFwd
    /\ submitted = <<>>
    /\ ticks = 0
    /\ InitMonitor

\* addLine: m.lock.Lock(), then the read of m.lines[stream] that append works on
AddLineLock(p, s) ==
    /\ bproc[p].pc = "idle"
    /\ addsLeft > 0
    /\ CanLock(lock)
    /\ lock' = p
    /\ bproc' = [bproc EXCEPT ![p] = [pc |-> "add", stream |-> s, data |-> nextLine,
                                      old |-> Buf(lines, s)]]
    /\ nextLine' = nextLine + 1
    /\ addsLeft' = addsLeft - 1
    /\ UNCHANGED <<lines, appended, drained, lastCall, fwd, submitted, ticks, mainVars, auxVars>>

\* addLine: the store m.lines[stream] = append(...), then the deferred Unlock
AddLineStore(p) ==
    /\ bproc[p].pc = "add"
    /\ lines' = PutBuf(lines, bproc[p].stream, Append(bproc[p].old, bproc[p].data))
    /\ appended' = [appended EXCEPT ![bproc[p].stream] = Append(@, bproc[p].data)]
    /\ lock' = "free"
    /\ bproc' = [bproc EXCEPT ![p] = IdleProc]
    /\ UNCHANGED <<drained, nextLine, addsLeft, lastCall, fwd, submitted, ticks, mainVars, auxVars>>

\* getLines: m.lock.Lock()
GetLinesLock(s) ==
    /\ bproc[Forwarder].pc = "idle"
    /\ CanLock(lock)
    /\ lock' = Forwarder
    /\ bproc' = [bproc EXCEPT ![Forwarder] = [pc |-> "get", stream |-> s, data |-> 0,
                                              old |-> <<>>]]
    /\ UNCHANGED <<lines, appended, drained, nextLine, addsLeft, lastCall, fwd, submitted, ticks, mainVars, auxVars>>

\* getLines: nl, the copy, the store of the rest, the deferred Unlock and the return
GetLinesReturn ==
    /\ bproc[Forwarder].pc = "get"
    /\ LET s == bproc[Forwarder].stream
           ret == getLinesRet(lines, s)
       IN  /\ lines' = getLinesRest(lines, s)
           /\ drained' = [drained EXCEPT ![s] = @ \o ret]
           /\ lastCall' = [made |-> TRUE, stream |-> s, before |-> Buf(lines, s),
                           ret |-> ret, after |-> Buf(lines', s)]
    /\ lock' = "free"
    /\ bproc' = [bproc EXCEPT ![Forwarder] = IdleProc]
    /\ UNCHANGED <<appended, nextLine, addsLeft, fwd, submitted, ticks, mainVars, auxVars>>

NextBuf ==
    \/ \E p \in Producers, s \in Streams : AddLineLock(p, s)
    \/ \E p \in Producers : AddLineStore(p)
    \/ \E s \in Streams : GetLinesLock(s)
    \/ GetLinesReturn

SpecBuf == InitBuf /\ [][NextBuf]_vars

\* Every tick of the forwarder calls getLines for every stream, so no stream is
\* passed over for ever (strong fairness: the call is not enabled while another
\* call holds the lock), and a goroutine that holds the lock runs on to its Unlock.
SpecBufLive ==
    /\ SpecBuf
    /\ \A s \in Streams : SF_vars(GetLinesLock(s))
    /\ WF_vars(GetLinesReturn)
    /\ \A p \in Producers : WF_vars(AddLineStore(p))

(***************************************************************************)
(* SpecFwd: streamLogs.  Every tick ranges over streams(), drains each     *)
(* stream with getLines and submits what it got as one PutRecords batch.   *)
(* The producers are the addLine calls of the handlers and readers; here   *)
(* addLine and getLines are the critical sections as a whole.              *)
(***************************************************************************)

\* errorCount with "errorCount = 1" in place of "errorCount += 1"
RECURSIVE CountErrorsFlag(_)
CountErrorsFlag(records) ==
    IF records = <<>> THEN 0
    ELSE IF records[1] THEN 1 ELSE CountErrorsFlag(Tail(records))

\* the loop over res.Records: errorCount += 1 for each record whose ErrorCode is set
RECURSIVE CountErrors(_)
CountErrors(records) ==
    IF records = <<>> THEN 0
    ELSE (IF records[1] THEN 1 ELSE 0) + CountErrors(Tail(records))

\* a PutRecords that returns a nil output with its transport error
PutRecordsResultsNilOnError(n) ==
    {[err |-> TRUE, out |-> FALSE, records |-> <<>>]}
        \cup {[err |-> FALSE, out |-> TRUE, records |-> r] : r \in [1..n -> BOOLEAN]}

\* What Kinesis.PutRecords can return for a batch of n records: a transport error,
\* with the output value of the request (out: res is not nil) and no Records in it,
\* or one result per record, each with or without an ErrorCode (TRUE: the record
\* is flagged).
PutRecordsResults(n) ==
    {[err |-> TRUE, out |-> TRUE, records |-> <<>>]}
        \cup {[err |-> FALSE, out |-> TRUE, records |-> r] : r \in [1..n -> BOOLEAN]}

\* the lines logged with count#KinesisPutRecordsError=1: one when err != nil
streamLogsErrLogged(res) == IF res.err THEN 1 ELSE 0

NoLog == [successes |-> -1, errors |-> -1]

\* the line logged when errorCount > 0: count#KinesisRecordsSuccesses is
\* len(res.Records), count#KinesisRecordsErrors is errorCount
streamLogsLogged(res) ==
    IF CountErrors(res.records) > 0
    THEN [successes |-> Len(res.records), errors |-> CountErrors(res.records)]
    ELSE NoLog

InitFwd ==
    /\ lines = << >>
    /\ appended = [s \in Streams |-> <<>>]
    /\ nextLine = 1
    /\ lock = "free"
    /\ bproc = [p \in BufProcs |-> IdleProc]
    /\ drained = [s \in Streams |-> <<>>]
    /\ addsLeft = MaxFwdLines
    /\ lastCall = NoCall
    /\ fwd = IdleFwd
    /\ submitted = <<>>
    /\ ticks = 0
    /\ InitMonitor

\* a handler or reader appends one line to a stream
FwdAddLine(s) ==
    /\ addsLeft > 0
    /\ lines' = addLine(lines, s, nextLine)
    /\ appended' = [appended EXCEPT ![s] = Append(@, nextLine)]
    /\ nextLine' = nextLine + 1
    /\ addsLeft' = addsLeft - 1
    /\ UNCHANGED <<lock, bproc, drained, lastCall, fwd, submitted, ticks, mainVars, auxVars>>

\* the timer ticks (the range over the previous tick's streams is over): m.streams()
FwdTick ==
    /\ fwd.pc = "wait" \/ (fwd.pc = "range" /\ fwd.todo = {})
    /\ ticks < MaxTicks
    /\ ticks' = ticks + 1
    /\ fwd' = [pc |-> "range", todo |-> streams(lines), stream |-> "", batch |-> <<>>]
    /\ UNCHANGED <<bufVars, submitted, mainVars, auxVars>>

\* the next stream of the range (a map's keys come in any order): l := m.getLines(stream),
\* and "continue" when l is nil
FwdGetLines(s) ==
    /\ fwd.pc = "range"
    /\ s \in fwd.todo
    /\ LET l == getLinesRet(lines, s)
       IN  /\ lines' = getLinesRest(lines, s)
           /\ drained' = [drained EXCEPT ![s] = @ \o l]
           /\ lastCall' = [made |-> TRUE, stream |-> s, before |-> Buf(lines, s),
                           ret |-> l, after |-> Buf(lines', s)]
           /\ fwd' = IF l = <<>>
                     THEN [fwd EXCEPT !.todo = @ \ {s}]
                     ELSE [pc |-> "put", todo |-> fwd.todo \ {s}, stream |-> s, batch |-> l]
    /\ UNCHANGED <<lock, bproc, appended, nextLine, addsLeft, submitted, ticks, mainVars, auxVars>>

\* Kinesis.PutRecords(records), the error log, the count of flagged records and
\* the log of the counts; then on to the next stream.  The range over res.Records
\* dereferences res: a nil res ends the goroutine (and the program) in a panic.
FwdPutRecords ==
    /\ fwd.pc = "put"
    /\ \E res \in PutRecordsResults(Len(fwd.batch)) :
          /\ submitted' = Append(submitted,
                                 [stream |-> fwd.stream, lines |-> fwd.batch, tick |-> ticks,
                                  err |-> res.err, errLogged |-> streamLogsErrLogged(res),
                                  records |-> res.records,
                                  logged |-> IF res.out THEN streamLogsLogged(res) ELSE NoLog])
          /\ fwd' = [fwd EXCEPT !.pc = IF res.out THEN "range" ELSE "panic",
                                !.stream = "", !.batch = <<>>]
    /\ UNCHANGED <<bufVars, ticks, mainVars, auxVars>>

NextFwd ==
    \/ \E s \in Streams : FwdAddLine(s)
    \/ FwdTick
    \/ \E s \in Streams : FwdGetLines(s)
    \/ FwdPutRecords

SpecFwd == InitFwd /\ [][NextFwd]_vars

(***************************************************************************)
(* SpecLock: the goroutines' accesses to m.envs, m.loggers and m.lines,    *)
(* each from its first touch of the map to its last, with the Lock and the *)
(* deferred Unlock of the functions that take m.lock.                      *)
(***************************************************************************)
InitLock ==
    /\ lines = << >>
    /\ lock = "free"
    /\ bproc = [p \in BufProcs |-> IdleProc]
    /\ appended = [s \in Streams |-> <<>>]
    /\ drained = [s \in Streams |-> <<>>]
    /\ nextLine = 1
    /\ addsLeft = 0
    /\ lastCall = NoCall
    /\ fwd = IdleFwd
    /\ submitted = <<>>
    /\ ticks = 0
    /\ InitMonitor

\* goroutine g enters op: after m.lock.Lock() when the function takes the lock,
\* directly otherwise
AccessBegin(g, op) ==
    /\ acc[g] = "idle"
    /\ op \in Calls(g)
    /\ IF MapOps[op].locks
       THEN CanLock(lock) /\ lock' = g
       ELSE lock' = lock
    /\ acc' = [acc EXCEPT ![g] = op]
    /\ UNCHANGED <<lines, bproc, appended, drained, nextLine, addsLeft, lastCall,
                   fwdVars, mainVars, pfl, cyc>>

\* goroutine g is done with the map: the deferred Unlock when it holds the lock
AccessEnd(g) ==
    /\ acc[g] # "idle"
    /\ lock' = IF lock = g THEN "free" ELSE lock
    /\ acc' = [acc EXCEPT ![g] = "idle"]
    /\ UNCHANGED <<lines, bproc, appended, drained, nextLine, addsLeft, lastCall,
                   fwdVars, mainVars, pfl, cyc>>

NextLock ==
    \/ \E g \in Goroutines, op \in DOMAIN MapOps : AccessBegin(g, op)
    \/ \E g \in Goroutines : AccessEnd(g)

SpecLock == InitLock /\ [][NextLock]_vars

(***************************************************************************)
(* Spec: Containers().  One goroutine runs the inventory pass              *)
(* (handleRunning, handleExited) and then the dispatch loop handleEvents;  *)
(* every "go" statement adds a task.  handleCreate runs on that goroutine, *)
(* called by handleRunning or by the dispatch loop.                        *)
(***************************************************************************)
bufRest == <<lock, bproc, appended, drained, nextLine, addsLeft, lastCall>>

\* the counters of what the containers' log streams have done so far
feedRest == <<nEnds, nForward>>

Alive == mt.pc # "fatal"

\* the errors a subscription handed to ReportError, by inspect result
NoReports == [notfound |-> 0, other |-> 0]

\* the goroutine of "go m.handleStart(id)" (kind "start") or of "go m.handleDie(id)",
\* handleKill, handleOom, handleStop (kind "life": they differ in their message); "made"
\* remembers what handleCreate had stored for a create event of the feed by then,
\* "ev" the number of the event that started it
NewTask(kind, id, from) ==
    [kind |-> kind, id |-> id, from |-> from,
     ev |-> IF from = "event" THEN nEvents + 1 ELSE 0,
     pc |-> IF kind = "start" THEN "cgroups" ELSE "run",
     made |-> IF from = "event" THEN getEnv(created, id) ELSE NoEnv,
     seen |-> [looked |-> FALSE, ok |-> FALSE, env |-> << >>], own |-> FALSE,
     cycles |-> 0, inspects |-> 0, res |-> "",
     nNotFound |-> 0, nOther |-> 0, rep |-> NoReports,
     closes |-> 0, atClose |-> -1]

\* handleCreate returns to its caller: handleRunning goes on with
\* "go m.handleStart(container.ID)", the dispatch loop with its metric line
ReturnMt(m) ==
    IF m.ret = "inventory"
    THEN [m EXCEPT !.pc = "running", !.i = @ + 1, !.id = ""]
    ELSE [m EXCEPT !.pc = "events", !.id = "", !.wait = ""]

ReturnTasks(ts, m) ==
    IF m.ret = "inventory" THEN Append(ts, NewTask("start", m.id, "inventory")) ELSE ts

\* handleRunning: ListContainers, fatal on error; the answer is the host's running
\* containers at that moment
ListRunning ==
    /\ mt.pc = "start"
    /\ \/ mt' = [mt EXCEPT !.pc = "fatal"] /\ host' = host
       \/ \E l \in RunningLists :
             /\ mt' = [mt EXCEPT !.pc = "running", !.list = l, !.i = 1]
             /\ host' = [host EXCEPT !.running = Range(l)]
    /\ handles' = logSystemf(handles, loggers, agent)
    /\ UNCHANGED <<agent, envs, loggers, tasks, nEvents, cgroups, excluded, created,
                   lines, bufRest, feedRest, fwdVars, handled, auxVars>>

\* handleRunning: one container of the list; the agent's own is recorded and skipped,
\* any other goes to handleCreate
RunningNext ==
    /\ mt.pc = "running"
    /\ IF mt.i > Len(mt.list)
       THEN /\ mt' = [mt EXCEPT !.pc = "listExited", !.list = <<>>, !.i = 0]
            /\ UNCHANGED <<agent, excluded, handled>>
       ELSE LET c == mt.list[mt.i]
                img == Image(c)
            IN  IF IsAgentImage(img)
                THEN /\ agent' = [id |-> c, image |-> img,
                                  version |-> IF Len(img) = 2 THEN img[2] ELSE agent.version]
                     /\ excluded' = excluded \cup {c}
                     /\ mt' = [mt EXCEPT !.i = @ + 1]
                     /\ UNCHANGED handled
                ELSE /\ mt' = [mt EXCEPT !.pc = "create", !.id = c, !.ret = "inventory"]
                     /\ handled' = [handled EXCEPT !.created = @ \cup {c}]
                     /\ UNCHANGED <<agent, excluded>>
    /\ handles' = logSystemf(handles, loggers, agent)
    /\ UNCHANGED <<envs, loggers, tasks, nEvents, cgroups, created, lines, bufRest, feedRest, fwdVars,
                   host, auxVars>>

\* a handleCreate that goes on with an empty container when InspectContainer fails
handleCreateEnvAlways(es, id, ok) ==
    setEnv(es, id, IF ok THEN ParseEnv(ConfigEnv(id)) ELSE << >>)

\* handleCreate: the registry after the call, unchanged when InspectContainer
\* failed (the return at line 146), else with the env parsed from Config.Env stored
handleCreateEnv(es, id, ok) ==
    IF ok THEN setEnv(es, id, ParseEnv(ConfigEnv(id))) ELSE es

\* handleCreate: InspectContainer; on error return, else parse and store the env,
\* and without a LOG_GROUP go on to logAppEvent and return
CreateInspect ==
    /\ mt.pc = "create"
    /\ \E ok \in BOOLEAN :
          /\ envs' = handleCreateEnv(envs, mt.id, ok)
          /\ IF ~ok
             THEN /\ mt' = ReturnMt([mt EXCEPT !.err = TRUE])
                  /\ tasks' = ReturnTasks(tasks, mt)
                  /\ handles' = logSystemf(handles, loggers, agent)
                  /\ handled' = [handled EXCEPT !.failed = @ \cup {mt.id}]
                  /\ UNCHANGED <<created, lines>>
             ELSE LET env == ParseEnv(ConfigEnv(mt.id))
                  IN  /\ created' = IF mt.ret = "event"
                                    THEN [c \in (DOMAIN created) \cup {mt.id} |->
                                             IF c = mt.id THEN env ELSE created[c]]
                                    ELSE created
                      /\ handled' = handled
                      /\ IF EnvGet(env, "LOG_GROUP") # ""
                         THEN /\ mt' = [mt EXCEPT !.pc = "createLogger", !.err = FALSE]
                              /\ handles' = logSystemf(handles, loggers, agent)
                              /\ UNCHANGED <<tasks, lines>>
                         ELSE /\ mt' = ReturnMt([mt EXCEPT !.err = FALSE])
                              /\ tasks' = ReturnTasks(tasks, mt)
                              /\ handles' = logAppEventLog(logSystemf(handles, loggers, agent),
                                                           loggers, mt.id)
                              /\ lines' = logAppEventLine(lines, envs', mt.id)
    /\ UNCHANGED <<agent, loggers, nEvents, cgroups, excluded, bufRest, feedRest, fwdVars,
                   host, auxVars>>

\* handleCreate: StartAWSLogger (awslogs.New, setLogger), setLogger again, logAppEvent
CreateLogger ==
    /\ mt.pc = "createLogger"
    /\ \E ok \in BOOLEAN :
          LET h == Len(handles) + 1
              hs == IF ok THEN Append(handles, NewHandle(mt.id)) ELSE handles
          IN  /\ loggers' = IF ok THEN setLogger(setLogger(loggers, mt.id, h), mt.id, h)
                                  ELSE loggers
              /\ handles' = logAppEventLog(logSystemf(hs, loggers', agent), loggers', mt.id)
    /\ lines' = logAppEventLine(lines, envs, mt.id)
    /\ mt' = ReturnMt(mt)
    /\ tasks' = ReturnTasks(tasks, mt)
    /\ UNCHANGED <<agent, envs, nEvents, cgroups, excluded, created, bufRest, feedRest, fwdVars, startVars, auxVars>>

\* handleExited: ListContainers with the exited filter, fatal on error; the answer
\* holds the containers that have exited by then (one listed as running before has
\* exited since)
ListExited ==
    /\ mt.pc = "listExited"
    /\ \/ mt' = [mt EXCEPT !.pc = "fatal"] /\ host' = host
       \/ \E l \in ExitedLists :
             /\ host.exited \subseteq Range(l)
             /\ mt' = [mt EXCEPT !.pc = "exited", !.list = l, !.i = 1]
             /\ host' = [host EXCEPT !.running = @ \ Range(l), !.exited = Range(l)]
    /\ handles' = logSystemf(handles, loggers, agent)
    /\ UNCHANGED <<agent, envs, loggers, tasks, nEvents, cgroups, excluded, created,
                   lines, bufRest, feedRest, fwdVars, handled, auxVars>>

\* handleExited: handleDie for one container of the list; after the last one
\* Containers() starts handleEvents and registers the event listener
ExitedNext ==
    /\ mt.pc = "exited"
    /\ IF mt.i > Len(mt.list)
       THEN /\ mt' = [mt EXCEPT !.pc = "events", !.list = <<>>, !.i = 0]
            /\ handles' = logSystemf(handles, loggers, agent)
            /\ UNCHANGED <<lines, handled>>
       ELSE /\ mt' = [mt EXCEPT !.i = @ + 1]
            /\ handled' = [handled EXCEPT !.died = @ \cup {mt.list[mt.i]}]
            /\ handles' = logAppEventLog(logSystemf(handles, loggers, agent),
                                         loggers, mt.list[mt.i])
            /\ lines' = logAppEventLine(lines, envs, mt.list[mt.i])
    /\ UNCHANGED <<agent, envs, loggers, tasks, nEvents, cgroups, excluded, created,
                   bufRest, feedRest, fwdVars, host, auxVars>>

\* a switch that starts handleCreate with "go" like the other handlers
handleEventsNextAsync(kind) == "events"

\* where the loop is after the switch's case for an event of this kind: inside the
\* handleCreate it called, or back at the range over the channel
handleEventsNext(kind) == IF kind = "create" THEN "create" ELSE "events"

\* handleEvents: the next event of the feed.  create runs handleCreate on the loop,
\* the other handled kinds start their handler with "go", any other kind only
\* gets its metric line.
Dispatch(id, kind) ==
    /\ mt.pc = "events"
    /\ nEvents < MaxEvents
    /\ nEvents' = nEvents + 1
    /\ \/ /\ kind = "create"
          /\ mt' = [mt EXCEPT !.pc = handleEventsNext(kind), !.id = id, !.ret = "event",
                              !.wait = "create"]
          /\ UNCHANGED tasks
       \/ /\ kind \in {"die", "kill", "oom", "start", "stop"}
          /\ tasks' = Append(tasks, NewTask(IF kind = "start" THEN "start" ELSE "life",
                                             id, "event"))
          /\ UNCHANGED mt
       \/ /\ kind \notin {"create", "die", "kill", "oom", "start", "stop"}
          /\ UNCHANGED <<mt, tasks>>
    /\ handles' = logSystemf(handles, loggers, agent)
    /\ UNCHANGED <<agent, envs, loggers, cgroups, excluded, created, lines, bufRest, feedRest, fwdVars, startVars, auxVars>>

\* updateCgroups at the head of handleStart: with SWAP=1 in the captured env, the
\* three cgroup limit files of the container are written (a failed write is logged
\* and reported, and changes nothing in the monitor)
StartCgroups(t) ==
    /\ Alive
    /\ tasks[t].kind = "start" /\ tasks[t].pc = "cgroups"
    /\ LET id == tasks[t].id
           e == getEnv(envs, id)
       IN  cgroups' = IF e.ok /\ EnvGet(e.env, "SWAP") = "1" THEN cgroups \cup {id}
                      ELSE cgroups
    /\ tasks' = [tasks EXCEPT ![t].pc = "check"]
    /\ handles' = logSystemf(handles, loggers, agent)
    /\ UNCHANGED <<mt, agent, envs, loggers, nEvents, excluded, created, lines, bufRest, feedRest, fwdVars, startVars, auxVars>>

\* a handleStart that subscribes for every container with a registry entry
handleStartSubscribesAnyEnv(id, ag, e) == id # ag.id /\ e.ok

\* handleStart's three nested conditions around m.subscribeLogs(id): e is what
\* getEnv(id) returned
handleStartSubscribes(id, ag, e) ==
    id # ag.id /\ e.ok /\ EnvGet(e.env, "LOG_GROUP") # ""

\* handleStart: id != m.agentId, the getEnv lookup, LOG_GROUP set: subscribeLogs
\* and its first connect cycle (the pipe, readLines and followDockerLogs started)
StartCheck(t) ==
    /\ Alive
    /\ tasks[t].kind = "start" /\ tasks[t].pc = "check"
    /\ LET id == tasks[t].id
           e == getEnv(envs, id)
           sub == handleStartSubscribes(id, agent, e)
       IN  tasks' = [tasks EXCEPT
                ![t].own = (id = agent.id),
                ![t].seen = IF id # agent.id THEN [looked |-> TRUE, ok |-> e.ok, env |-> e.env]
                            ELSE @,
                ![t].pc = IF sub THEN "streaming" ELSE "done",
                ![t].cycles = IF sub THEN 1 ELSE 0]
    /\ handles' = logSystemf(handles, loggers, agent)
    /\ UNCHANGED <<mt, agent, envs, loggers, nEvents, cgroups, excluded, created,
                   lines, bufRest, feedRest, fwdVars, startVars, auxVars>>

\* readLines hands one line to parseAndForwardLine: a system line when the
\* timestamp does not parse, the write to the container's logger if one is
\* registered, and the line added to the KINESIS stream of the env if set
ForwardLine(t) ==
    /\ Alive
    /\ tasks[t].pc = "streaming"
    /\ nForward < MaxForward
    /\ LET id == tasks[t].id
           env == getEnv(envs, id).env
           k == EnvGet(env, "KINESIS")
       IN  /\ \E parsed \in BOOLEAN :
                 handles' = LogTo(IF parsed THEN handles
                                  ELSE logSystemf(handles, loggers, agent),
                                  getLogger(loggers, id))
           /\ lines' = IF k # "" THEN addLine(lines, k, <<id, "log">>) ELSE lines
    /\ nForward' = nForward + 1
    /\ UNCHANGED <<mt, agent, envs, loggers, tasks, nEvents, cgroups, excluded, created,
                   nEnds, bufRest, fwdVars, startVars, auxVars>>

\* a switch that leaves the loop when the container is still running
subscribeLogsNextStopsRunning(r) == IF r = "other" THEN "retry" ELSE "stop"

\* a switch that leaves the loop on an indeterminate inspect error
subscribeLogsNextStopsOther(r) == IF r = "running" THEN "retry" ELSE "stop"

\* the retry loop's decision for inspect result r: "retry" is continue (the next
\* connect cycle), "stop" is break retry
subscribeLogsNext(r) == IF r \in {"running", "other"} THEN "retry" ELSE "stop"

\* a switch that does not report the missing container
subscribeLogsReportsOtherOnly(r, rep) ==
    IF r = "other" THEN [rep EXCEPT !.other = @ + 1] ELSE rep

\* the errors the switch hands to ReportError for inspect result r
subscribeLogsReports(r, rep) ==
    CASE r = "notfound" -> [rep EXCEPT !.notfound = @ + 1]
      [] r = "other"    -> [rep EXCEPT !.other = @ + 1]
      [] OTHER          -> rep

\* The log stream of the container ends, followDockerLogs and readLines return and
\* wg.Wait() is over; then c, err := m.client.InspectContainer(id) and the switch on
\* its result: the next connect cycle, or out of the loop.
Reconcile(t) ==
    /\ Alive
    /\ tasks[t].pc = "streaming"
    /\ nEnds < MaxEnds
    /\ nEnds' = nEnds + 1
    /\ \E r \in InspectResults :
          /\ tasks' = [tasks EXCEPT
                ![t].res = r,
                ![t].inspects = @ + 1,
                ![t].nNotFound = @ + (IF r = "notfound" THEN 1 ELSE 0),
                ![t].nOther = @ + (IF r = "other" THEN 1 ELSE 0),
                ![t].rep = subscribeLogsReports(r, @),
                ![t].pc = IF subscribeLogsNext(r) = "retry" THEN "streaming" ELSE "closing",
                ![t].cycles = IF subscribeLogsNext(r) = "retry" THEN @ + 1 ELSE @]
    /\ handles' = logSystemf(handles, loggers, agent)
    /\ UNCHANGED <<mt, agent, envs, loggers, nEvents, cgroups, excluded, created,
                   lines, nForward, bufRest, fwdVars, startVars, auxVars>>

\* subscribeLogs after the loop: getLogger and, if a logger is registered, Close
\* (its error, if any, is logged and reported, and changes nothing in the monitor);
\* then handleStart's last line
CloseLogger(t) ==
    /\ Alive
    /\ tasks[t].pc = "closing"
    /\ LET h == getLogger(loggers, tasks[t].id)
       IN  IF h # 0
           THEN /\ handles' = logSystemf(CloseHandle(handles, h), loggers, agent)
                /\ tasks' = [tasks EXCEPT ![t].pc = "done", ![t].atClose = h,
                                          ![t].closes = @ + 1]
           ELSE /\ handles' = logSystemf(handles, loggers, agent)
                /\ tasks' = [tasks EXCEPT ![t].pc = "done", ![t].atClose = 0]
    /\ UNCHANGED <<mt, agent, envs, loggers, nEvents, cgroups, excluded, created,
                   lines, bufRest, feedRest, fwdVars, startVars, auxVars>>

\* handleDie, handleKill, handleOom, handleStop: the message and logAppEvent
Lifecycle(t) ==
    /\ Alive
    /\ tasks[t].kind # "start" /\ tasks[t].pc = "run"
    /\ handles' = logAppEventLog(logSystemf(handles, loggers, agent), loggers, tasks[t].id)
    /\ lines' = logAppEventLine(lines, envs, tasks[t].id)
    /\ tasks' = [tasks EXCEPT ![t].pc = "done"]
    /\ UNCHANGED <<mt, agent, envs, loggers, nEvents, cgroups, excluded, created,
                   bufRest, feedRest, fwdVars, startVars, auxVars>>

Init ==
    /\ lines = << >>
    /\ lock = "free"
    /\ bproc = [p \in BufProcs |-> IdleProc]
    /\ appended = [s \in Streams |-> <<>>]
    /\ drained = [s \in Streams |-> <<>>]
    /\ nextLine = 1
    /\ addsLeft = 0
    /\ lastCall = NoCall
    /\ fwd = IdleFwd
    /\ submitted = <<>>
    /\ ticks = 0
    /\ InitMonitor

Next ==
    \/ ListRunning
    \/ RunningNext
    \/ CreateInspect
    \/ CreateLogger
    \/ ListExited
    \/ ExitedNext
    \/ \E c \in Containers, k \in EventKinds : Dispatch(c, k)
    \/ \E t \in DOMAIN tasks :
          \/ StartCgroups(t)
          \/ StartCheck(t)
          \/ ForwardLine(t)
          \/ Reconcile(t)
          \/ CloseLogger(t)
          \/ Lifecycle(t)

Spec == Init /\ [][Next]_vars

(***************************************************************************)
(* SpecLine: parseAndForwardLine(id, line) on a monitor whose registry,    *)
(* sink-handle map and buffer hold what handleCreate and earlier lines     *)
(* left there.  Here a string is the sequence of its tokens, the dash      *)
(* being a token of its own ("a-b" is <<"a", "-", "b">>, "" is <<>>), so   *)
(* that strings.Split and strings.Join are computed.                       *)
(***************************************************************************)

\* all strings of at most n tokens over the given tokens
RECURSIVE StringsUpTo(_, _)
StringsUpTo(n, toks) ==
    IF n = 0 THEN { <<>> }
    ELSE LET shorter == StringsUpTo(n - 1, toks)
         IN  shorter \cup {Append(x, t) : x \in shorter, t \in toks}

\* the identifiers of the comments at lines 432-433
ExampleLogGroup == <<"convox", "-", "httpd", "-", "LogGroup", "-", "1KIJO8SS9F3Q9">>
ExampleStream == <<"myapp", "-", "staging", "-", "Kinesis", "-", "L6MUKT1VH451">>

\* the values LOG_GROUP and KINESIS take
Idents == StringsUpTo(MaxTokens, {"x", "-"}) \cup {ExampleLogGroup, ExampleStream}

\* the captured envs: each of APP, LOG_GROUP and KINESIS missing or set (APP to ""
\* or a name, the others to an identifier)
LineEnvs ==
    {[k \in {"APP"} \cap ks |-> a] @@ [k \in {"LOG_GROUP"} \cap ks |-> g]
        @@ [k \in {"KINESIS"} \cap ks |-> n] :
        ks \in SUBSET {"APP", "LOG_GROUP", "KINESIS"},
        a \in {<<>>, <<"myapp">>}, g \in Idents, n \in Idents}

\* the lines ReadString returns, as their words and the closing newline: with
\* Docker's timestamp in front, with a first word that is no timestamp, and of one word
InputLines ==
    { <<"2015-10-01T12:00:00.1Z", "hello", "\n">>, <<"hello", "world", "\n">>, <<"hello", "\n">> }

\* env[key] of a Go map whose values are strings spelled as tokens
EnvStr(env, key) == IF key \in DOMAIN env THEN env[key] ELSE <<>>

\* strings.Split(s, "-"): the parts between the dashes (one empty part for "")
RECURSIVE Split(_)
Split(str) ==
    IF str = <<>> THEN << <<>> >>
    ELSE LET n == Len(str)
             init == Split(SubSeq(str, 1, n - 1))
         IN  IF str[n] = "-" THEN Append(init, <<>>)
             ELSE [init EXCEPT ![Len(init)] = Append(@, str[n])]

\* strings.Join(parts, "-")
RECURSIVE Join(_)
Join(parts) ==
    IF parts = <<>> THEN <<>>
    ELSE IF Len(parts) = 1 THEN parts[1]
    ELSE Join(SubSeq(parts, 1, Len(parts) - 1)) \o <<"-">> \o parts[Len(parts)]

\* an extraction that drops one trailing part only
appFromResourceDropsOne(r) ==
    LET parts == Split(r)
    IN  IF Len(parts) > 2 THEN Join(SubSeq(parts, 1, Len(parts) - 1)) ELSE <<>>

\* app from the log resource: with more than two parts, all but the last two joined;
\* otherwise app stays ""
appFromResource(r) ==
    LET parts == Split(r)
    IN  IF Len(parts) > 2 THEN Join(SubSeq(parts, 1, Len(parts) - 2)) ELSE <<>>

\* app: env["APP"], or when that is "" the name inferred from LOG_GROUP, or from
\* KINESIS when LOG_GROUP is ""
resolveApp(env) ==
    IF EnvStr(env, "APP") # <<>> THEN EnvStr(env, "APP")
    ELSE appFromResource(IF EnvStr(env, "LOG_GROUP") = <<>> THEN EnvStr(env, "KINESIS")
                         ELSE EnvStr(env, "LOG_GROUP"))

\* time.Parse(time.RFC3339Nano, word)
IsTimestamp(word) == word = "2015-10-01T12:00:00.1Z"

\* the head of parseAndForwardLine: the last character (the newline) is cut off,
\* then strings.SplitN(line, " ", 2) and time.Parse; with two parts and a
\* timestamp, ts is the timestamp and line the rest; else ts is time.Now() and the
\* line is kept whole (a parse error is logged)
parseTimestamp(line) ==
    LET cut == SubSeq(line, 1, Len(line) - 1)
    IN  IF Len(cut) >= 2 /\ IsTimestamp(cut[1])
        THEN [ts |-> cut[1], line |-> Tail(cut), err |-> FALSE]
        ELSE [ts |-> "now", line |-> cut, err |-> Len(cut) >= 2]

\* l := fmt.Sprintf("%s:%s/%s %s", process, release, id[0:12], line)
formatLine(env, id, line) ==
    [process |-> EnvStr(env, "PROCESS"), release |-> EnvStr(env, "RELEASE"),
     id |-> <<id, "0:12">>, line |-> line]

\* the Log calls of one parseAndForwardLine: one, on the registered logger, if any
sinkWrites(lg, id, ts, l) ==
    IF getLogger(lg, id) # 0 THEN << [h |-> getLogger(lg, id), ts |-> ts, line |-> l] >>
    ELSE <<>>

\* a test of the key's presence, as logAppEvent makes it
forwardsToStreamIfKey(env) == "KINESIS" \in DOMAIN env

\* if k := env["KINESIS"]; k != ""
forwardsToStream(env) == EnvStr(env, "KINESIS") # <<>>

\* the buffer after parseAndForwardLine: the legacy line added to the env's stream
streamWrites(ls, env, ts, l) ==
    IF forwardsToStream(env)
    THEN addLine(ls, EnvStr(env, "KINESIS"), [ts |-> ts, line |-> l])
    ELSE ls

\* the monitor before the call: container c1 without or with a registry entry,
\* without or with a registered logger, the buffer empty or holding a line of
\* another stream and one of the example stream
InitLine ==
    /\ \/ envs = << >>
       \/ \E env \in LineEnvs : envs = setEnv(<< >>, "c1", env)
    /\ \/ loggers = << >> /\ handles = <<>>
       \/ loggers = setLogger(<< >>, "c1", 1) /\ handles = <<NewHandle("c1")>>
    /\ \/ lines = << >>
       \/ lines = addLine(addLine(<< >>, <<"other">>, [ts |-> "now", line |-> "old"]),
                          ExampleStream, [ts |-> "now", line |-> "old"])
    /\ pfl = NoLine
    /\ lock = "free"
    /\ bproc = [p \in BufProcs |-> IdleProc]
    /\ appended = [s \in Streams |-> <<>>]
    /\ drained = [s \in Streams |-> <<>>]
    /\ nextLine = 1
    /\ addsLeft = 0
    /\ lastCall = NoCall
    /\ fwd = IdleFwd
    /\ submitted = <<>>
    /\ ticks = 0
    /\ mt = [pc |-> "events", list |-> <<>>, i |-> 0, id |-> "", ret |-> "", wait |-> "",
             err |-> FALSE]
    /\ agent = [id |-> "unknown", image |-> <<"convox/agent", "dev">>, version |-> "dev"]
    /\ tasks = <<>>
    /\ nEvents = 0
    /\ cgroups = {}
    /\ excluded = {}
    /\ nEnds = 0
    /\ nForward = 0
    /\ created = << >>
    /\ host = NoHost
    /\ handled = NoneHandled
    /\ cyc = NoCycle
    /\ acc = NoAccess

\* parseAndForwardLine(id, line)
ParseAndForwardLine(id, line) ==
    /\ pfl.calls < MaxCalls
    /\ LET p == parseTimestamp(line)
           env == getEnv(envs, id).env
           l == formatLine(env, id, p.line)
           sunk == sinkWrites(loggers, id, p.ts, l)
       IN  /\ handles' = LogTo(IF p.err THEN logSystemf(handles, loggers, agent) ELSE handles,
                               getLogger(loggers, id))
           /\ lines' = streamWrites(lines, env, p.ts, l)
           /\ pfl' = [calls |-> pfl.calls + 1, id |-> id, input |-> line, env |-> env,
                      app |-> resolveApp(env), ts |-> p.ts, l |-> l, sunk |-> sunk,
                      before |-> lines, after |-> lines']
    /\ UNCHANGED <<lock, bproc, appended, drained, nextLine, addsLeft, lastCall, fwdVars,
                   mt, agent, envs, loggers, tasks, nEvents, cgroups, excluded, nEnds, nForward,
                   created, host, handled, cyc, acc>>

NextLine == \E line \in InputLines : ParseAndForwardLine("c1", line)

SpecLine == InitLine /\ [][NextLine]_vars

(***************************************************************************)
(* SpecStartup: the inventory pass of Containers() on a host whose         *)
(* containers start and exit while it runs.  The event listener is added   *)
(* after handleExited (m.client.AddEventListener, the last statement), so  *)
(* what happens on the host before that reaches the monitor only through   *)
(* the two ListContainers answers.                                         *)
(***************************************************************************)

\* Containers() is between its first ListContainers and AddEventListener
InPass ==
    \/ mt.pc \in {"running", "listExited", "exited"}
    \/ mt.pc \in {"create", "createLogger"} /\ mt.ret = "inventory"

\* a container that was not there starts on the host
HostStarts(c) ==
    /\ InPass
    /\ host.changes < MaxLate
    /\ c \notin host.running \cup host.exited
    /\ host' = [host EXCEPT !.running = @ \cup {c}, !.changes = @ + 1]
    /\ UNCHANGED <<mt, agent, envs, loggers, handles, tasks, nEvents, cgroups, excluded, created,
                   lines, bufRest, feedRest, fwdVars, handled, auxVars>>

\* a running container exits on the host (before the exited listing only one that
\* a listing of ExitedLists can hold)
HostExits(c) ==
    /\ InPass
    /\ host.changes < MaxLate
    /\ c \in host.running
    /\ mt.pc # "exited" => \E l \in ExitedLists : host.exited \cup {c} \subseteq Range(l)
    /\ host' = [host EXCEPT !.running = @ \ {c}, !.exited = @ \cup {c}, !.changes = @ + 1]
    /\ UNCHANGED <<mt, agent, envs, loggers, handles, tasks, nEvents, cgroups, excluded, created,
                   lines, bufRest, feedRest, fwdVars, handled, auxVars>>

NextStartup ==
    \/ ListRunning
    \/ RunningNext
    \/ CreateInspect
    \/ CreateLogger
    \/ ListExited
    \/ ExitedNext
    \/ \E c \in Containers : HostStarts(c)
    \/ \E c \in Containers : HostExits(c)

SpecStartup == Init /\ [][NextStartup]_vars

(***************************************************************************)
(* Claims about the stream buffer (SpecBuf, SpecBufLive).                  *)
(***************************************************************************)

\* C7: one getLines(stream) call on a buffer of n lines returns exactly the
\* min(n, 500) oldest lines in insertion order, removes exactly those lines
\* (nothing when n = 0), and never returns more than 500 entries.
C7_DrainOldestAtMost500 ==
    lastCall.made =>
        LET n == Len(lastCall.before)
            k == Min(n, 500)
        IN  /\ lastCall.ret = SubSeq(lastCall.before, 1, k)
            /\ lastCall.after = SubSeq(lastCall.before, k + 1, n)
            /\ Len(lastCall.ret) <= 500
            /\ (n = 0 => lastCall.ret = <<>>)

\* a call that met more than 500 pending lines, returned 500 and left the rest
C7_Witness ==
    /\ lastCall.made
    /\ Len(lastCall.before) > 500
    /\ Len(lastCall.ret) = 500
    /\ Len(lastCall.after) = Len(lastCall.before) - 500

\* no producer will call addLine again, and none is inside addLine
NoMoreAdds == addsLeft = 0 /\ \A p \in Producers : bproc[p].pc = "idle"

\* the step is the return of a getLines call
GetLinesReturns == bproc[Forwarder].pc = "get" /\ bproc'[Forwarder].pc = "idle"

\* C8: once a stream receives no further addLine calls, repeated getLines
\* calls eventually leave its buffer empty for good, and every getLines call
\* on the emptied buffer returns nothing and leaves it empty.
C8_RepeatedDrainsExhaust ==
    /\ \A s \in Streams : NoMoreAdds ~> [](Buf(lines, s) = <<>>)
    /\ [][(NoMoreAdds /\ GetLinesReturns /\ Buf(lines, bproc[Forwarder].stream) = <<>>)
            => (lastCall'.ret = <<>> /\ Buf(lines', bproc[Forwarder].stream) = <<>>)]_vars

\* a buffer of more than 500 lines emptied by several drains, then drained once more
C8_Witness ==
    /\ NoMoreAdds
    /\ \E s \in Streams :
          /\ Len(drained[s]) > 500
          /\ Buf(lines, s) = <<>>
          /\ lastCall.made /\ lastCall.stream = s
          /\ lastCall.before = <<>> /\ lastCall.ret = <<>>

\* C9: for every stream, the results of the successive getLines calls followed
\* by the lines still buffered are the appended lines in append order: no line
\* is lost, duplicated or reordered, whatever the interleaving of addLine and
\* getLines calls.
C9_DrainsPreserveAppendOrder ==
    \A s \in Streams : drained[s] \o Buf(lines, s) = appended[s]

\* two producers appended to one stream around a drain of it
C9_Witness ==
    /\ NoMoreAdds
    /\ \E s \in Streams :
          /\ Len(drained[s]) > 0
          /\ Len(Buf(lines, s)) >= 2
          /\ Len(appended[s]) = Len(drained[s]) + Len(Buf(lines, s))

(***************************************************************************)
(* Claims about the batched forwarder (SpecFwd).                           *)
(***************************************************************************)

\* the lines of batch b that the sink flagged with an error code
FlaggedLines(b) == {b.lines[i] : i \in {j \in DOMAIN b.records : b.records[j]}}

\* the sink accepted batch b and flagged at least one of its records
PartlyFailed(b) == ~b.err /\ FlaggedLines(b) # {}

\* C10: when the sink accepts a batch of n records and flags k > 0 of them,
\* the forwarder counts exactly k failures and n total, and none of the k
\* failed lines is back in the Stream Buffer or part of any other batch.
C10_PartialFailureCountedNotRequeued ==
    \A i \in DOMAIN submitted :
        LET b == submitted[i]
        IN  PartlyFailed(b) =>
              /\ b.logged.errors = Cardinality({j \in DOMAIN b.records : b.records[j]})
              /\ b.logged.successes = Len(b.lines)
              /\ \A x \in FlaggedLines(b) :
                    /\ x \notin Range(Buf(lines, b.stream))
                    /\ \A j \in DOMAIN submitted : j # i => x \notin Range(submitted[j].lines)

\* a batch of three with two records flagged, followed by a later batch of the same stream
C10_Witness ==
    \E i, j \in DOMAIN submitted :
        /\ i < j
        /\ submitted[i].stream = submitted[j].stream
        /\ PartlyFailed(submitted[i])
        /\ Len(submitted[i].lines) = 3
        /\ Cardinality(FlaggedLines(submitted[i])) = 2
        /\ submitted[i].logged = [successes |-> 3, errors |-> 2]

\* the step is a PutRecords call that returned a transport error
PutRecordsFails ==
    /\ fwd.pc = "put"
    /\ Len(submitted') = Len(submitted) + 1
    /\ submitted'[Len(submitted')].err

Conflict(g, h) ==
    /\ g # h
    /\ acc[g] # "idle" /\ acc[h] # "idle"
    /\ MapOps[acc[g]].map = MapOps[acc[h]].map
    /\ MapOps[acc[g]].write \/ MapOps[acc[h]].write

\* C12: every read and every write of m.envs, m.loggers and m.lines, in
\* logAppEvent and logSystemf too, is made while the goroutine holds m.lock, so
\* no two goroutines are ever inside accesses of one map with one of them writing.
C12_AllMapAccessUnderLock ==
    /\ \A g \in Goroutines : acc[g] # "idle" => lock = g
    /\ \A g, h \in Goroutines : ~Conflict(g, h)

(***************************************************************************)
(* Claims about the dispatcher, the handlers and the subscription loop     *)
(* (Spec).                                                                 *)
(***************************************************************************)
StartTasks == {t \in DOMAIN tasks : tasks[t].kind = "start"}

\* the subscriptions: the handleStart tasks that entered subscribeLogs
Subscribers == {t \in StartTasks : tasks[t].cycles > 0}

\* C1: when handleCreate(c) succeeded for a create event that precedes a start
\* event of c on the feed, the getEnv(c) lookup of handleStart(c) for that start
\* event returns ok with exactly the env that handleCreate stored, never a
\* missing or empty entry.
C1_StartSeesCreatedEnv ==
    \A t \in StartTasks :
        (tasks[t].from = "event" /\ tasks[t].made.ok /\ tasks[t].seen.looked) =>
            /\ tasks[t].seen.ok
            /\ tasks[t].seen.env = tasks[t].made.env
            /\ tasks[t].seen.env # << >>

\* a start event after a successful create event of the same container, looked up and subscribed
C1_Witness ==
    \E t \in StartTasks :
        /\ tasks[t].from = "event" /\ tasks[t].made.ok
        /\ tasks[t].seen.looked /\ tasks[t].seen.ok
        /\ tasks[t].seen.env = ParseEnv(ConfigEnv(tasks[t].id))
        /\ tasks[t].pc = "streaming"

\* C2: subscribeLogs has never been started for a container id that the
\* inventory pass skipped as the agent's own.
C2_NoSubscriberForExcluded ==
    \A t \in Subscribers : tasks[t].id \notin excluded

\* the registered handle of subscription t's container is closed only if another
\* subscription of that container called Close
ClosedOnlyByOthers(t) ==
    LET h == getLogger(loggers, tasks[t].id)
    IN  (h # 0 /\ ~handles[h].open) =>
            \E u \in Subscribers : u # t /\ tasks[u].id = tasks[t].id /\ tasks[u].closes > 0

\* subscription t is in a connect cycle again after its last inspect, and has not called Close
Reconnected(t) ==
    /\ tasks[t].pc = "streaming"
    /\ tasks[t].cycles = tasks[t].inspects + 1
    /\ tasks[t].closes = 0 /\ tasks[t].atClose = -1
    /\ ClosedOnlyByOthers(t)

\* subscription t is out of the retry loop after its last inspect and starts no
\* connect cycle; once past the loop it has called Close on the registered handle,
\* if there was one, and that handle is closed
Closed(t) ==
    /\ tasks[t].pc \in {"closing", "done"}
    /\ tasks[t].cycles = tasks[t].inspects
    /\ tasks[t].pc = "closing" => tasks[t].closes = 0
    /\ tasks[t].pc = "done" =>
          /\ tasks[t].atClose >= 0
          /\ tasks[t].atClose = 0 => tasks[t].closes = 0
          /\ tasks[t].atClose > 0 =>
                /\ tasks[t].closes = 1
                /\ handles[tasks[t].atClose].id = tasks[t].id
                /\ ~handles[tasks[t].atClose].open
                /\ handles[tasks[t].atClose].closes >= 1

\* C3: when a connect cycle ends and InspectContainer reports the container
\* running, the subscriber starts a new connect cycle and does not call Close on
\* the container's sink handle, however many times this happens.
C3_RunningReconnectsWithoutClose ==
    \A t \in Subscribers : tasks[t].res = "running" => Reconnected(t)

\* a subscription that reconnected twice on "running", its registered handle open
C3_Witness ==
    \E t \in Subscribers :
        /\ tasks[t].res = "running" /\ tasks[t].inspects >= 2 /\ tasks[t].nOther = 0
        /\ getLogger(loggers, tasks[t].id) # 0
        /\ handles[getLogger(loggers, tasks[t].id)].open

\* C4: when a connect cycle ends and InspectContainer reports the container not
\* running, the subscriber leaves the retry loop, closes the sink handle if one is
\* registered and never starts another connect cycle.
C4_StoppedClosesAndEnds ==
    \A t \in Subscribers : tasks[t].res = "stopped" => Closed(t)

\* a subscription ended by "not running" that closed the registered handle
C4_Witness ==
    \E t \in Subscribers :
        /\ tasks[t].res = "stopped" /\ tasks[t].pc = "done"
        /\ tasks[t].atClose > 0 /\ ~handles[tasks[t].atClose].open

\* C5: when InspectContainer fails with container-not-found, the error is
\* reported exactly once, no further connect cycle is started and the
\* subscription is closed (with the sink handle, if one is registered).
C5_NotFoundReportedOnceAndEnds ==
    \A t \in Subscribers :
        /\ tasks[t].rep.notfound = tasks[t].nNotFound
        /\ tasks[t].rep.notfound <= 1
        /\ tasks[t].res = "notfound" => (tasks[t].rep.notfound = 1 /\ Closed(t))

\* a subscription ended by not-found after a reconnect, with the handle closed
C5_Witness ==
    \E t \in Subscribers :
        /\ tasks[t].res = "notfound" /\ tasks[t].pc = "done" /\ tasks[t].inspects >= 2
        /\ tasks[t].rep.notfound = 1
        /\ tasks[t].atClose > 0 /\ ~handles[tasks[t].atClose].open

\* C6: when InspectContainer fails with any other error, the error is reported
\* each time and the subscriber starts another connect cycle without closing the
\* sink handle; a subscription is never closed through such an error.
C6_OtherErrorReportedAndRetried ==
    \A t \in Subscribers :
        /\ tasks[t].rep.other = tasks[t].nOther
        /\ tasks[t].res = "other" => Reconnected(t)
        /\ tasks[t].pc \in {"closing", "done"} => tasks[t].res \in {"stopped", "notfound"}

\* a subscription that met two indeterminate errors, reported both and is connected again
C6_Witness ==
    \E t \in Subscribers :
        /\ tasks[t].res = "other" /\ tasks[t].nOther >= 2 /\ tasks[t].rep.other >= 2
        /\ tasks[t].pc = "streaming"
        /\ getLogger(loggers, tasks[t].id) # 0
        /\ handles[getLogger(loggers, tasks[t].id)].open

\* the step dequeues an event of the feed
Dequeues == nEvents' = nEvents + 1

\* C13: the dispatch loop dequeues an event only when the handleCreate of every
\* earlier create event has returned, with the env it stored in the registry, and
\* an event of a kind started with "go" leaves the loop at the range over the
\* channel at once, whatever the handlers started before are doing.
C13_CreateBlocksLoopOthersDoNot ==
    /\ [][Dequeues => (mt.pc = "events" /\ mt.wait = "")]_vars
    /\ [][(Dequeues /\ Len(tasks') = Len(tasks) + 1) => (mt'.pc = "events" /\ mt'.wait = "")]_vars
    /\ [](mt.wait = "" => \A c \in DOMAIN created : getEnv(envs, c) = [ok |-> TRUE, env |-> created[c]])
    /\ [](mt.wait = "create" => (mt.pc \in {"create", "createLogger"} /\ mt.ret = "event"))

\* a start event whose handler is still in its subscription when a later create
\* event has been dequeued and its handleCreate has returned with a sink handle opened
C13_Witness ==
    /\ mt.pc = "events" /\ mt.wait = ""
    /\ \E t \in StartTasks :
          /\ tasks[t].from = "event" /\ tasks[t].pc = "streaming"
          /\ tasks[t].ev < nEvents
    /\ \E c \in DOMAIN created : getLogger(loggers, c) # 0 /\ handles[getLogger(loggers, c)].id = c

\* Containers() has added the event listener and no event has been delivered yet
DispatcherStarts == mt.pc = "events" /\ nEvents = 0

\* C14: when the dispatcher starts receiving live events, every container running
\* on the host (the agent's own apart) has had handleCreate run for it and every
\* exited container has had handleDie run for it, the containers that started or
\* exited while the inventory pass was in progress included.
C14_NoContainerMissedAtStartup ==
    DispatcherStarts =>
        /\ \A c \in host.running : ~IsAgentImage(Image(c)) => c \in handled.created
        /\ \A c \in host.exited : c \in handled.died

\* the steps in which handleCreate's InspectContainer fails
CreateInspectFails == mt.pc = "create" /\ mt'.pc # "create" /\ mt'.err

\* the containers for which handleCreate has run and no InspectContainer succeeded
NeverInspected == {c \in handled.failed : c \notin DOMAIN envs}

\* C15: when InspectContainer fails inside handleCreate(c), the handler returns at
\* once (no second inspect) and leaves the Registry, the sink-handle map and the
\* Stream Buffer as they were; a container whose handleCreate calls all failed has
\* no env entry and no sink handle, and no handleStart for it enters subscribeLogs.
C15_FailedInspectRegistersNothing ==
    /\ [][CreateInspectFails =>
            /\ envs' = envs /\ loggers' = loggers /\ lines' = lines
            /\ Len(handles') = Len(handles)
            /\ mt'.pc = (IF mt.ret = "inventory" THEN "running" ELSE "events")]_vars
    /\ [](\A c \in NeverInspected :
            /\ getEnv(envs, c) = NoEnv
            /\ getLogger(loggers, c) = 0
            /\ \A t \in StartTasks : tasks[t].id = c =>
                  /\ tasks[t].cycles = 0
                  /\ tasks[t].pc \in {"cgroups", "check", "done"})

\* a create event whose inspect failed, then a start event of the same container
\* whose handler looked the container up, found nothing and returned
C15_Witness ==
    \E t \in StartTasks :
        /\ tasks[t].from = "event" /\ tasks[t].id \in NeverInspected
        /\ tasks[t].id \notin handled.created
        /\ tasks[t].pc = "done" /\ tasks[t].seen.looked /\ ~tasks[t].seen.ok

\* the handleStart calls that are past their decision
Decided == {t \in StartTasks : tasks[t].pc \notin {"cgroups", "check"}}

\* C17: handleStart(c) enters subscribeLogs if and only if c is not the container
\* the monitor holds as its own (m.agentId) and the env it finds for c in the
\* registry has a non-empty LOG_GROUP; with no registry entry, or with an env that
\* has only a stream name, it does not.
C17_StartSubscribesIffLogGroup ==
    \A t \in Decided :
        LET id == tasks[t].id
        IN  /\ tasks[t].own <=> (id = agent.id)
            /\ tasks[t].seen.looked <=> ~tasks[t].own
            /\ tasks[t].seen.ok => tasks[t].seen.env = ParseEnv(ConfigEnv(id))
            /\ (tasks[t].cycles > 0) <=>
                  (id # agent.id /\ tasks[t].seen.ok /\ EnvGet(tasks[t].seen.env, "LOG_GROUP") # "")
            /\ (tasks[t].cycles > 0) =>
                  (getEnv(envs, id).ok /\ EnvGet(envs[id], "LOG_GROUP") # "")

\* a subscription for a container with a log group, beside a handleStart that found
\* an env with only a stream name and did not subscribe
C17_Witness ==
    /\ \E t \in Decided : tasks[t].cycles > 0 /\ EnvGet(tasks[t].seen.env, "LOG_GROUP") # ""
    /\ \E t \in Decided :
          /\ tasks[t].seen.ok /\ EnvGet(tasks[t].seen.env, "LOG_GROUP") = ""
          /\ EnvGet(tasks[t].seen.env, "KINESIS") # "" /\ tasks[t].cycles = 0 /\ tasks[t].pc = "done"

(***************************************************************************)
(* Claims about parseAndForwardLine (SpecLine).                            *)
(***************************************************************************)

\* str without its last dash and what follows it; nothing is left of a string
\* without a dash
CutLastSegment(str) ==
    LET dashes == {i \in 1..Len(str) : str[i] = "-"}
    IN  IF dashes = {} THEN <<>>
        ELSE SubSeq(str, 1, (CHOOSE i \in dashes : \A j \in dashes : j <= i) - 1)

DropLastTwoSegments(str) == CutLastSegment(CutLastSegment(str))

\* the value of a field of the env, "" when the env has no such field
Field(env, key) == IF key \in DOMAIN env THEN env[key] ELSE <<>>

\* C16: in parseAndForwardLine, when the env has no APP or an empty one, app is
\* the log-group identifier, or the stream identifier when the env has no (or an
\* empty) log group, without its last two dash-separated segments, for every
\* identifier; convox-httpd-LogGroup-1KIJO8SS9F3Q9 gives convox-httpd; when APP
\* is set, app is the APP value.
C16_AppNameFallback ==
    /\ resolveApp([LOG_GROUP |-> ExampleLogGroup]) = <<"convox", "-", "httpd">>
    /\ pfl.calls > 0 =>
          LET env == pfl.env
          IN  IF Field(env, "APP") # <<>> THEN pfl.app = env["APP"]
              ELSE IF Field(env, "LOG_GROUP") # <<>>
                   THEN pfl.app = DropLastTwoSegments(env["LOG_GROUP"])
                   ELSE pfl.app = DropLastTwoSegments(Field(env, "KINESIS"))

\* a line of a container whose env has no APP and the example log group
C16_Witness ==
    /\ pfl.calls > 0
    /\ "APP" \notin DOMAIN pfl.env
    /\ Field(pfl.env, "LOG_GROUP") = ExampleLogGroup
    /\ pfl.app = <<"convox", "-", "httpd">>

\* C18: for a line handled by parseAndForwardLine for container c, the formatted
\* line is written to c's sink exactly when a handle is registered for c, once;
\* a legacy line is appended to the buffer of the stream named in c's env exactly
\* when that field is set and not empty, once; no other stream's buffer changes.
C18_LineToSinkAndStream ==
    pfl.calls > 0 =>
        LET id == pfl.id
            env == IF id \in DOMAIN envs THEN envs[id] ELSE << >>
            k == Field(env, "KINESIS")
        IN  /\ Len(pfl.sunk) = (IF id \in DOMAIN loggers THEN 1 ELSE 0)
            /\ id \in DOMAIN loggers =>
                  /\ pfl.sunk[1] = [h |-> loggers[id], ts |-> pfl.ts, line |-> pfl.l]
                  /\ handles[loggers[id]].wrote
            /\ id \notin DOMAIN loggers => \A h \in DOMAIN handles : ~handles[h].wrote
            /\ IF k # <<>>
               THEN /\ DOMAIN pfl.after = DOMAIN pfl.before \cup {k}
                    /\ pfl.after[k] = Append(Buf(pfl.before, k), [ts |-> pfl.ts, line |-> pfl.l])
                    /\ \A s \in DOMAIN pfl.before : s # k => pfl.after[s] = pfl.before[s]
               ELSE pfl.after = pfl.before
            /\ lines = pfl.after

\* a timestamped line of a container with a registered handle and a stream name
\* whose buffer already held a line beside another stream's
C18_Witness ==
    /\ pfl.calls > 0
    /\ Len(pfl.sunk) = 1 /\ pfl.ts # "now"
    /\ Field(pfl.env, "KINESIS") = ExampleStream
    /\ Len(Buf(pfl.before, ExampleStream)) = 1
    /\ Len(Buf(lines, ExampleStream)) = 2
    /\ Len(Buf(lines, <<"other">>)) = 1

(***************************************************************************)
(* SpecCycle: one connect cycle of subscribeLogs for one container: the    *)
(* subscriber waits on the WaitGroup while followDockerLogs writes the     *)
(* container's output into the pipe and readLines reads it back through a  *)
(* bufio.Reader. A Write on an io.Pipe returns when the reader has taken   *)
(* all of its bytes; one Read hands the reader everything the Write in     *)
(* progress still holds, and ReadString returns the first line of it and   *)
(* keeps the rest in the bufio buffer. The lines are numbered in the order *)
(* they are written.                                                       *)
(***************************************************************************)
MaxCycleLines == 3      \* lines the follow request writes in one cycle
MaxChunk == 2           \* lines one Write on the pipe carries

\* subscribeLogs after "go readLines" and "go followDockerLogs", in wg.Wait
StartCycle ==
    [spc |-> "wait", wg |-> 2, fpc |-> "logs", rpc |-> "select",
     pend |-> <<>>, wclosed |-> FALSE, exit |-> FALSE,
     rbuf |-> <<>>, line |-> 0, written |-> <<>>, forwarded |-> <<>>, multi |-> FALSE]

InitCycle ==
    /\ cyc = StartCycle
    /\ pfl = NoLine
    /\ acc = NoAccess
    /\ lines = << >>
    /\ lock = "free"
    /\ bproc = [p \in BufProcs |-> IdleProc]
    /\ appended = [s \in Streams |-> <<>>]
    /\ drained = [s \in Streams |-> <<>>]
    /\ nextLine = 1
    /\ addsLeft = 0
    /\ lastCall = NoCall
    /\ fwd = IdleFwd
    /\ submitted = <<>>
    /\ ticks = 0
    /\ mt = [pc |-> "events", list |-> <<>>, i |-> 0, id |-> "", ret |-> "", wait |-> "",
             err |-> FALSE]
    /\ agent = [id |-> "unknown", image |-> <<"convox/agent", "dev">>, version |-> "dev"]
    /\ envs = << >>
    /\ loggers = << >>
    /\ handles = <<>>
    /\ tasks = <<>>
    /\ nEvents = 0
    /\ cgroups = {}
    /\ excluded = {}
    /\ nEnds = 0
    /\ nForward = 0
    /\ created = << >>
    /\ host = NoHost
    /\ handled = NoneHandled

cycleRest == <<bufVars, fwdVars, mainVars, pfl, acc>>

\* followDockerLogs inside client.Logs: the library writes n lines into the
\* pipe with one Write, which then waits for the reader to take them
FollowWrite(n) ==
    /\ cyc.fpc = "logs"
    /\ Len(cyc.written) + n <= MaxCycleLines
    /\ LET chunk == Numbered(Len(cyc.written) + 1, n)
       IN  cyc' = [cyc EXCEPT !.fpc = "write", !.pend = chunk,
                              !.written = cyc.written \o chunk,
                              !.multi = cyc.multi \/ n > 1]
    /\ UNCHANGED cycleRest

\* the Write returns once the reader has taken all its bytes
FollowWritten ==
    /\ cyc.fpc = "write"
    /\ cyc.pend = <<>>
    /\ cyc' = [cyc EXCEPT !.fpc = "logs"]
    /\ UNCHANGED cycleRest

\* client.Logs returns: the follow request has ended (with or without an error)
FollowEnds ==
    /\ cyc.fpc = "logs"
    /\ cyc' = [cyc EXCEPT !.fpc = "close"]
    /\ UNCHANGED cycleRest

\* w.Close()
FollowClose ==
    /\ cyc.fpc = "close"
    /\ cyc' = [cyc EXCEPT !.fpc = "signal", !.wclosed = TRUE]
    /\ UNCHANGED cycleRest

\* close(exit), the last log line and the deferred wg.Done()
FollowExit ==
    /\ cyc.fpc = "signal"
    /\ cyc' = [cyc EXCEPT !.fpc = "done", !.exit = TRUE, !.wg = cyc.wg - 1]
    /\ UNCHANGED cycleRest

\* the select of readLines never takes the exit case
readLinesIgnoresExit(closed) == FALSE

\* the select of readLines: the exit case is taken exactly when the channel is closed
readLinesSeesExit(closed) == closed

\* readLines at the select: return (and wg.Done) on the exit signal, else the default case
ReadSelect ==
    /\ cyc.rpc = "select"
    /\ IF readLinesSeesExit(cyc.exit)
       THEN cyc' = [cyc EXCEPT !.rpc = "done", !.wg = cyc.wg - 1]
       ELSE cyc' = [cyc EXCEPT !.rpc = "read"]
    /\ UNCHANGED cycleRest

\* br.ReadString('\n'): a line from the bufio buffer, else one Read of the pipe
\* (everything the Write in progress holds), else EOF with "" once the write end
\* is closed, else it blocks. The pipe gives no error other than EOF here: its
\* read end is never closed.
ReadString ==
    /\ cyc.rpc = "read"
    /\ \/ /\ cyc.rbuf # <<>>
          /\ cyc' = [cyc EXCEPT !.rpc = "forward", !.line = Head(cyc.rbuf),
                                !.rbuf = Tail(cyc.rbuf)]
       \/ /\ cyc.rbuf = <<>> /\ cyc.pend # <<>>
          /\ cyc' = [cyc EXCEPT !.rpc = "forward", !.line = Head(cyc.pend),
                                !.rbuf = Tail(cyc.pend), !.pend = <<>>]
       \/ /\ cyc.rbuf = <<>> /\ cyc.pend = <<>> /\ cyc.wclosed
          /\ cyc' = [cyc EXCEPT !.rpc = "select"]
    /\ UNCHANGED cycleRest

\* line != "": parseAndForwardLine(id, line), then back to the select
ReadForward ==
    /\ cyc.rpc = "forward"
    /\ cyc' = [cyc EXCEPT !.rpc = "select", !.line = 0,
                          !.forwarded = Append(cyc.forwarded, cyc.line)]
    /\ UNCHANGED cycleRest

\* wg.Wait() returns; the subscriber goes on to InspectContainer
CycleJoin ==
    /\ cyc.spc = "wait"
    /\ cyc.wg = 0
    /\ cyc' = [cyc EXCEPT !.spc = "inspect"]
    /\ UNCHANGED cycleRest

NextCycle ==
    \/ \E n \in 1..MaxChunk : FollowWrite(n)
    \/ FollowWritten
    \/ FollowEnds
    \/ FollowClose
    \/ FollowExit
    \/ ReadSelect
    \/ ReadString
    \/ ReadForward
    \/ CycleJoin

SpecCycle == InitCycle /\ [][NextCycle]_vars

\* both goroutines and the subscriber keep running; only the container decides
\* whether more output comes and when the follow request ends
SpecCycleLive ==
    /\ SpecCycle
    /\ WF_vars(FollowWritten)
    /\ WF_vars(FollowClose)
    /\ WF_vars(FollowExit)
    /\ WF_vars(ReadSelect)
    /\ WF_vars(ReadString)
    /\ WF_vars(ReadForward)
    /\ WF_vars(CycleJoin)

\* C19: in one connect cycle the lines forwarded to parseAndForwardLine are
\* always a prefix of the lines the follower wrote (each once, in order), the
\* reader never returns on the exit signal while a line it has read from the
\* pipe is still unforwarded, and when the cycle is joined every written line
\* has been forwarded.
C19_EveryWrittenLineForwarded ==
    /\ Len(cyc.forwarded) <= Len(cyc.written)
    /\ cyc.forwarded = SubSeq(cyc.written, 1, Len(cyc.forwarded))
    /\ cyc.rpc = "done" => cyc.rbuf = <<>>
    /\ cyc.spc = "inspect" => cyc.forwarded = cyc.written

\* the part of C19 that does hold: the forwarded lines are a prefix of the
\* written ones, and nothing is lost when every Write carried a single line
SingleLineWritesLoseNothing ==
    /\ Len(cyc.forwarded) <= Len(cyc.written)
    /\ cyc.forwarded = SubSeq(cyc.written, 1, Len(cyc.forwarded))
    /\ ~cyc.multi /\ cyc.rpc = "done" => cyc.rbuf = <<>>
    /\ ~cyc.multi /\ cyc.spc = "inspect" => cyc.forwarded = cyc.written

\* the follow request has ended: client.Logs has returned
FollowEnded == cyc.fpc \in {"close", "signal", "done"}

\* C20: once the follow request has ended the cycle is joined and the
\* subscriber reaches InspectContainer; the reader returns only after the
\* write end is closed and exit is signalled, and the join only after both
\* goroutines have returned.
C20_CycleAlwaysJoins ==
    /\ FollowEnded ~> cyc.spc = "inspect"
    /\ [](cyc.rpc = "done" => cyc.wclosed /\ cyc.exit)
    /\ [](cyc.spc = "inspect" => cyc.fpc = "done" /\ cyc.rpc = "done" /\ cyc.wg = 0)

\* a joined cycle whose reader forwarded output and also met EOF
C20_Witness ==
    /\ cyc.spc = "inspect"
    /\ Len(cyc.forwarded) >= 2
    /\ cyc.forwarded = cyc.written

(***************************************************************************)
(* Claims about the life of a sink handle and of a subscription (Spec).    *)
(***************************************************************************)

\* C21: a sink handle that subscribeLogs has closed is never written to again
\* (by logAppEvent, logSystemf or parseAndForwardLine) and is never closed a
\* second time.
C21_ClosedHandleNeverUsedAgain ==
    \A h \in DOMAIN handles :
        /\ ~handles[h].late
        /\ handles[h].closes <= 1

\* the subscriptions that are inside the retry loop of subscribeLogs
ActiveSubscribers == {t \in Subscribers : tasks[t].pc = "streaming"}

\* C22: no two subscriptions of the same container id are inside the retry loop
\* of subscribeLogs at the same time.
C22_AtMostOneSubscriberPerContainer ==
    \A t, u \in ActiveSubscribers : tasks[t].id = tasks[u].id => t = u

====
